---- MODULE Spec2Model ----
(***************************************************************************)
(* A model of fish_audio_preprocess: the loudness normalisation of         *)
(* utils/loudness_norm.py (loudness_norm, loudness_norm_file) and the      *)
(* batch collection of cli/frequency.py (frequency, count_midi_from_file). *)
(*                                                                         *)
(* Numbers.  A float is a record [k, n, d]:                                *)
(*   k = "fin": the value sign(n) * sqrt(|n| / d), n/d in lowest terms;    *)
(*   k = "inf": plus or minus infinity (n = 1 or -1);                      *)
(*   k = "nan": not a number.                                              *)
(* Every operation of the code on samples is |x|, x*x, a sum of squares or *)
(* a product with a non-negative gain, so the signed square n/d is exact.  *)
(* Powers are measured in units of the absolute gate of the meter: power 1 *)
(* is -70 LUFS, that is 10^((-70 + 0.691)/10) of full scale squared.  A    *)
(* level argument in dB (peak) or LUFS (loudness) is held as the power     *)
(* 10^(dB/10) it denotes, a float with n > 0.                              *)
(* Durations are in tenths of a second, rates in frames per second.        *)
(* The buffer is mono.  The K-weighting pre-filter of the meter is taken   *)
(* with unity gain: the energy of a block is the energy of its samples.    *)
(***************************************************************************)
EXTENDS Integers, Sequences, FiniteSets, TLC

\* ------------------------------------------------------------------ bounds
MaxFrames == 5
MaxFiles == 3
MaxPitch == 2

\* ------------------------------------------------------ floating point
Abs(i) == IF i < 0 THEN -i ELSE i

Sign(i) == IF i < 0 THEN -1 ELSE IF i = 0 THEN 0 ELSE 1

RECURSIVE Gcd(_, _)
Gcd(a, b) == IF b = 0 THEN a ELSE Gcd(b, a % b)

Fin(n, d) ==
  LET g == Gcd(Abs(n), d)
  IN  [k |-> "fin", n |-> n \div g, d |-> d \div g]

Inf(s) == [k |-> "inf", n |-> s, d |-> 1]

NaN == [k |-> "nan", n |-> 0, d |-> 1]

Zero == Fin(0, 1)

IsFin(x) == x.k = "fin"
IsNan(x) == x.k = "nan"
IsInf(x) == x.k = "inf"
IsZero(x) == x.k = "fin" /\ x.n = 0

\* |x|
FAbs(x) == [x EXCEPT !.n = Abs(x.n)]

\* a < b for finite values (cross-reduced before multiplying)
RatLt(a, b) ==
  LET g == Gcd(a.d, b.d)
  IN  a.n * (b.d \div g) < b.n * (a.d \div g)

\* IEEE comparison a < b: false when either side is NaN
FLt(a, b) ==
  CASE IsNan(a) \/ IsNan(b) -> FALSE
    [] IsInf(a) /\ IsInf(b) -> a.n < b.n
    [] IsInf(a) -> a.n < 0
    [] IsInf(b) -> b.n > 0
    [] OTHER -> RatLt(a, b)

FLeq(a, b) == ~IsNan(a) /\ ~IsNan(b) /\ ~FLt(b, a)

\* sum of two non-negative powers
FAdd(a, b) ==
  CASE IsNan(a) \/ IsNan(b) -> NaN
    [] IsInf(a) \/ IsInf(b) -> Inf(1)
    [] OTHER -> LET g == Gcd(a.d, b.d)
                IN  Fin(a.n * (b.d \div g) + b.n * (a.d \div g), (a.d \div g) * b.d)

\* x * g for a gain g >= 0 (both held as signed squares)
FMul(x, g) ==
  CASE IsNan(x) \/ IsNan(g) -> NaN
    [] IsInf(x) -> IF IsZero(g) THEN NaN ELSE Inf(x.n * Sign(g.n))
    [] IsInf(g) -> IF IsZero(x) THEN NaN ELSE Inf(Sign(x.n) * g.n)
    [] OTHER -> LET g1 == Gcd(Abs(x.n), g.d)
                    g2 == Gcd(Abs(g.n), x.d)
                IN  Fin((x.n \div g1) * (g.n \div g2), (x.d \div g2) * (g.d \div g1))

\* a / b for a finite a > 0 and b >= 0
FDiv(a, b) ==
  CASE IsNan(b) -> NaN
    [] IsInf(b) -> Zero
    [] IsZero(b) -> Inf(1)
    [] OTHER -> FMul(a, Fin(b.d, b.n))

\* a / m for an integer m > 0
FDivInt(a, m) == IF IsFin(a) THEN FMul(a, Fin(1, m)) ELSE a

\* gain * data, sample by sample
Scale(data, gain) == [t \in 1..Len(data) |-> FMul(data[t], gain)]

\* np.max(np.abs(data)) of a non-empty array: NaN propagates
RECURSIVE MaxAbs(_, _)
MaxAbs(data, t) ==
  IF t = 0 THEN Zero
  ELSE LET m == MaxAbs(data, t - 1)
           x == FAbs(data[t])
       IN  CASE IsNan(m) \/ IsNan(x) -> NaN
             [] FLt(m, x) -> x
             [] OTHER -> m

\* np.round(p / q) for q > 0: to the nearest integer, a tie to the even one
Round(p, q) ==
  LET f == p \div q
      r == p - f * q
  IN  CASE 2 * r < q -> f
        [] 2 * r > q -> f + 1
        [] OTHER -> IF f % 2 = 0 THEN f ELSE f + 1

\* ------------------------------------------------- pyloudnorm, as called
\* pyln.normalize.peak(data, target):
\*   current_peak = np.max(np.abs(data))
\*   gain = np.power(10.0, target / 20.0) / current_peak;  output = gain * data
\* A zero peak gives gain = inf (numpy divides without raising) and
\* inf * 0 = NaN.
normalize_peak(data, target) ==
  LET current_peak == MaxAbs(data, Len(data))
      gain == FDiv(target, current_peak)
  IN  Scale(data, gain)

\* pyln.normalize.loudness(data, input_loudness, target_loudness):
\*   gain = np.power(10.0, (target_loudness - input_loudness) / 20.0)
\*   output = gain * data
\* An input loudness of -inf (power 0) gives gain = inf.
normalize_loudness(data, input_loudness, target_loudness) ==
  LET gain == FDiv(target_loudness, input_loudness)
  IN  Scale(data, gain)

\* pyln.util.valid_audio(data, rate, block_size), the length test:
\*   if data.shape[0] < block_size * rate: raise ValueError(...)
valid_audio(data, rate_, block) == ~(10 * Len(data) < block * rate_)

\* numBlocks = int(np.round((T - T_g) / (T_g * step)) + 1), T = numSamples / rate
numBlocks(data, rate_, block) ==
  Round(40 * Len(data) - 4 * block * rate_, block * rate_) + 1

\* l = int(T_g * (j * step) * rate);  u = int(T_g * (j * step + 1) * rate)
BlockLo(j, rate_, block) == (block * rate_ * j) \div 40
BlockHi(j, rate_, block) == (block * rate_ * (j + 4)) \div 40

\* np.sum(np.square(data[l:u])): the slice stops at the end of the buffer
RECURSIVE SumSquares(_, _, _)
SumSquares(data, l, u) ==
  IF u <= l \/ l >= Len(data) THEN Zero
  ELSE FAdd(FAbs(data[l + 1]), SumSquares(data, l + 1, u))

\* z[j] = (1.0 / (T_g * rate)) * np.sum(np.square(input_data[l:u]))
BlockPower(data, j, rate_, block) ==
  FMul(SumSquares(data, BlockLo(j, rate_, block), BlockHi(j, rate_, block)),
       Fin(10, block * rate_))

\* Gamma_a = -70.0 LKFS, the absolute threshold: the unit of power
Gamma_a == Fin(1, 1)

RECURSIVE SumOver(_, _, _)
SumOver(z, J, j) ==
  IF j < 0 THEN Zero
  ELSE IF j \in J THEN FAdd(z[j], SumOver(z, J, j - 1))
       ELSE SumOver(z, J, j - 1)

\* np.mean([z[j] for j in J_g]): NaN for no block
MeanOver(z, J, nb) ==
  IF J = {} THEN NaN ELSE FDivInt(SumOver(z, J, nb - 1), Cardinality(J))

\* np.nan_to_num
nan_to_num(x) == IF IsNan(x) THEN Zero ELSE x

\* first pass: J_g = [j for j, l_j in enumerate(l) if l_j >= Gamma_a]
AbsoluteGate(z, nb) == {j \in 0..(nb - 1) : FLeq(Gamma_a, z[j])}

\* the second pass with the absolute threshold forgotten
RelativeGate_NoAbsolute(z, nb) ==
  LET Gamma_r == FDivInt(MeanOver(z, AbsoluteGate(z, nb), nb), 10)
  IN  {j \in 0..(nb - 1) : FLt(Gamma_r, z[j])}

\* second pass: J_g = [j ... if (l_j > Gamma_r and l_j > Gamma_a)],
\* Gamma_r = loudness of the mean of the first pass - 10.0
RelativeGate(z, nb) ==
  LET Gamma_r == FDivInt(MeanOver(z, AbsoluteGate(z, nb), nb), 10)
  IN  {j \in 0..(nb - 1) : FLt(Gamma_r, z[j]) /\ FLt(Gamma_a, z[j])}

\* z_avg_gated = np.nan_to_num(np.mean([z[j] for j in J_g])) and
\* LUFS = -0.691 + 10.0 * np.log10(z_avg_gated): power 0 is -inf LUFS
GatedLoudness(z, nb) == nan_to_num(MeanOver(z, RelativeGate(z, nb), nb))

\* the block powers z[0], ..., z[numBlocks - 1] of data
BlockPowers(data, rate_, block) ==
  [j \in 0..(numBlocks(data, rate_, block) - 1) |-> BlockPower(data, j, rate_, block)]

\* Meter(rate, block_size).integrated_loudness(data), after valid_audio
integrated_loudness(data, rate_, block) ==
  GatedLoudness(BlockPowers(data, rate_, block), numBlocks(data, rate_, block))

\* ---------------------------------------------------------------- inputs
\* sample amplitudes, in square roots of the unit of power
Amplitudes == {-9, 0, 2}

Sample(a) == Fin(a * Abs(a), 1)

\* the buffers of 1 to n frames
RECURSIVE Buffers(_)
Buffers(n) ==
  IF n = 1 THEN {<<Sample(a)>> : a \in Amplitudes}
  ELSE Buffers(n - 1) \cup
       {Append(b, Sample(a)) : b \in {c \in Buffers(n - 1) : Len(c) = n - 1},
                               a \in Amplitudes}

\* peak targets (-66.3 dBFS and -47.2 dBFS) and loudness targets
\* (-67 LUFS and -58 LUFS), as powers
PeakTargets == {Fin(2, 1), Fin(162, 1)}
LoudnessTargets == {Fin(2, 1), Fin(16, 1)}

\* block_size, in tenths of a second; the default is 0.400
DefaultBlockSize == 4
BlockSizes == {-4, 0, 2, DefaultBlockSize}
Rates == {5, 10}

\* chunk_size = 100000
chunk_size == 100000

\* ----------------------------------------------------------------- state
VARIABLES
  fn,          \* the entry point called: "loudness_norm" or "loudness_norm_file"
  pc,          \* the statement the call is at
  input,       \* the buffer passed in, or the samples of the input file
  rate,        \* the sample rate passed in, or that of the input file
  peak,        \* argument peak
  loudness,    \* argument loudness
  block_size,  \* argument block_size
  audio,       \* local audio
  meter,       \* <<block size of the Meter made>>, <<>> before
  measured,    \* <<_loudness>> or <<loudness_pre>>, <<>> before
  ret,         \* <<the buffer returned>>, <<>> before
  err,         \* the exception raised, "" for none
  steps,       \* the computations done so far in this call, in order
  out_open,    \* the output SoundFile has been opened for writing
  written,     \* the chunks written, each the frames [lo, hi) of audio
  i,           \* the loop variable of the chunk loop
  stop,        \* len(audio), the end of range(0, len(audio), chunk_size)
  call,        \* 1 for the first call, 2 for the call on its result
  first,       \* <<result of the first call>> once it has returned
  files,       \* frequency: the files found
  tasks,       \* frequency: the futures submitted, in order
  yielded,     \* frequency: the futures as_completed has given out
  counter,     \* frequency: the total Counter
  fpc          \* frequency: the statement the command is at

normVars == <<fn, pc, input, rate, peak, loudness, block_size, audio, meter,
              measured, ret, err, steps, call, first>>
writeVars == <<out_open, written, i, stop>>
freqVars == <<files, tasks, yielded, counter, fpc>>
vars == <<normVars, writeVars, freqVars>>

\* the frequency command is idle
FreqIdle ==
  /\ files = <<>>
  /\ tasks = <<>>
  /\ yielded = {}
  /\ counter = [m \in {} |-> 0]
  /\ fpc = "idle"

\* no call of the normalisation is in progress
NormIdle ==
  /\ fn = "none"
  /\ pc = "idle"
  /\ input = <<>>
  /\ rate = 0
  /\ peak = Zero
  /\ loudness = Zero
  /\ block_size = 0
  /\ audio = <<>>
  /\ meter = <<>>
  /\ measured = <<>>
  /\ ret = <<>>
  /\ err = ""
  /\ steps = <<>>
  /\ call = 0
  /\ first = <<>>

WriteIdle ==
  /\ out_open = FALSE
  /\ written = <<>>
  /\ i = 0
  /\ stop = 0

\* a call of loudness_norm(audio, rate, peak, loudness, block_size) or of
\* loudness_norm_file(input_file, output_file, peak, loudness, block_size)
Init ==
  /\ fn \in {"loudness_norm", "loudness_norm_file"}
  /\ pc = IF fn = "loudness_norm" THEN "ln_peak" ELSE "f_read"
  /\ input \in Buffers(MaxFrames)
  /\ rate \in Rates
  /\ peak \in PeakTargets
  /\ loudness \in LoudnessTargets
  /\ block_size \in BlockSizes
  /\ audio = IF fn = "loudness_norm" THEN input ELSE <<>>
  /\ meter = <<>>
  /\ measured = <<>>
  /\ ret = <<>>
  /\ err = ""
  /\ steps = <<>>
  /\ call = 1
  /\ first = <<>>
  /\ WriteIdle
  /\ FreqIdle

\* ---------------------------------------------------------- loudness_norm
\* audio = pyln.normalize.peak(audio, peak)
LN_Peak ==
  /\ pc = "ln_peak"
  /\ steps' = Append(steps, "peak")
  /\ audio' = normalize_peak(audio, peak)
  /\ pc' = "ln_meter"
  /\ UNCHANGED <<fn, input, rate, peak, loudness, block_size, meter, measured,
                 ret, err, call, first, writeVars, freqVars>>

\* meter = pyln.Meter(rate, block_size=block_size)
LN_Meter ==
  /\ pc = "ln_meter"
  /\ meter' = <<block_size>>
  /\ pc' = "ln_measure"
  /\ UNCHANGED <<fn, input, rate, peak, loudness, block_size, audio, measured,
                 ret, err, steps, call, first, writeVars, freqVars>>

\* What meter.integrated_loudness(data) raises, "" for nothing: valid_audio
\* refuses a buffer shorter than the block, and a block size <= 0 fails in
\* the block count (a division by zero, or a negative array dimension).
MeterError(data, rate_, block) ==
  CASE ~valid_audio(data, rate_, block) ->
         "ValueError: Audio must have length greater than the block size."
    [] block = 0 -> "ZeroDivisionError"
    [] block < 0 -> "ValueError: negative dimensions are not allowed"
    [] OTHER -> ""

\* _loudness = meter.integrated_loudness(audio)
LN_Measure ==
  /\ pc = "ln_measure"
  /\ steps' = Append(steps, "measure")
  /\ LET e == MeterError(audio, rate, meter[1])
     IN  IF e # ""
           THEN /\ pc' = "raised"
                /\ err' = e
                /\ UNCHANGED measured
           ELSE /\ measured' = <<integrated_loudness(audio, rate, meter[1])>>
                /\ pc' = "ln_return"
                /\ UNCHANGED err
  /\ UNCHANGED <<fn, input, rate, peak, loudness, block_size, audio, meter,
                 ret, call, first, writeVars, freqVars>>

\* return pyln.normalize.loudness(audio, _loudness, loudness)
LN_Return ==
  /\ pc = "ln_return"
  /\ steps' = Append(steps, "loudness")
  /\ ret' = <<normalize_loudness(audio, measured[1], loudness)>>
  /\ pc' = "done"
  /\ UNCHANGED <<fn, input, rate, peak, loudness, block_size, audio, meter,
                 measured, err, call, first, writeVars, freqVars>>

\* ----------------------------------------------------- loudness_norm_file
\* the samples of input_file: the second call reads what the first wrote
InputFile == IF call = 1 THEN input ELSE first[1]

\* audio, rate = sf.read(str(input_file)); the decoder may raise
F_Read ==
  /\ pc = "f_read"
  /\ \/ /\ audio' = InputFile
        /\ pc' = "f_meter"
        /\ UNCHANGED err
     \/ /\ err' = "sf.read failed"
        /\ pc' = "f_except"
        /\ UNCHANGED audio
  /\ UNCHANGED <<fn, input, rate, peak, loudness, block_size, meter, measured,
                 ret, steps, call, first, writeVars, freqVars>>

\* meter = pyln.Meter(rate): the Meter's default block_size, 0.400
F_Meter ==
  /\ pc = "f_meter"
  /\ meter' = <<DefaultBlockSize>>
  /\ pc' = "f_measure"
  /\ UNCHANGED <<fn, input, rate, peak, loudness, block_size, audio, measured,
                 ret, err, steps, call, first, writeVars, freqVars>>

\* loudness_pre = meter.integrated_loudness(audio)
F_Measure ==
  /\ pc = "f_measure"
  /\ steps' = Append(steps, "measure")
  /\ LET e == MeterError(audio, rate, meter[1])
     IN  IF e # ""
           THEN /\ pc' = "f_except"
                /\ err' = e
                /\ UNCHANGED measured
           ELSE /\ measured' = <<integrated_loudness(audio, rate, meter[1])>>
                /\ pc' = "f_loudness"
                /\ UNCHANGED err
  /\ UNCHANGED <<fn, input, rate, peak, loudness, block_size, audio, meter,
                 ret, call, first, writeVars, freqVars>>

\* audio = pyln.normalize.loudness(audio, loudness_pre, loudness)
F_Loudness ==
  /\ pc = "f_loudness"
  /\ steps' = Append(steps, "loudness")
  /\ audio' = normalize_loudness(audio, measured[1], loudness)
  /\ pc' = "f_peak"
  /\ UNCHANGED <<fn, input, rate, peak, loudness, block_size, meter, measured,
                 ret, err, call, first, writeVars, freqVars>>

\* audio = pyln.normalize.peak(audio, peak)
F_Peak ==
  /\ pc = "f_peak"
  /\ steps' = Append(steps, "peak")
  /\ audio' = normalize_peak(audio, peak)
  /\ pc' = "f_open"
  /\ UNCHANGED <<fn, input, rate, peak, loudness, block_size, meter, measured,
                 ret, err, call, first, writeVars, freqVars>>

\* with sf.SoundFile(output_file, "w", ...) as f:
\*     for i in range(0, len(audio), chunk_size):
F_Open ==
  /\ pc = "f_open"
  /\ steps' = Append(steps, "open")
  /\ out_open' = TRUE
  /\ written' = <<>>
  /\ i' = 0
  /\ stop' = Len(audio)
  /\ pc' = "f_loop"
  /\ UNCHANGED <<fn, input, rate, peak, loudness, block_size, audio, meter,
                 measured, ret, err, call, first, freqVars>>

Min(a, b) == IF a < b THEN a ELSE b

\* audio[lo:hi], as the frames it holds: the slice stops at len(audio)
Slice(lo, hi, len) == [lo |-> Min(lo, len), hi |-> Min(hi, len)]

\* a range that steps one frame short of a chunk
RangeNext_Overlap(k) == k + chunk_size - 1

\* the next value of range(0, len(audio), chunk_size) after i
RangeNext(k) == k + chunk_size

\* chunk = audio[i : i + chunk_size]; f.write(chunk)
F_Write ==
  /\ pc = "f_loop"
  /\ i < stop
  /\ written' = Append(written, Slice(i, i + chunk_size, stop))
  /\ i' = RangeNext(i)
  /\ UNCHANGED <<normVars, out_open, stop, freqVars>>

\* the range is exhausted: the with block closes the file and the call returns
F_Close ==
  /\ pc = "f_loop"
  /\ ~(i < stop)
  /\ out_open' = FALSE
  /\ pc' = "done"
  /\ UNCHANGED <<fn, input, rate, peak, loudness, block_size, audio, meter,
                 measured, ret, err, steps, call, first, written, i, stop,
                 freqVars>>

\* except Exception as e: print(...); traceback.print_exc(); raise
F_Except ==
  /\ pc = "f_except"
  /\ pc' = "raised"
  /\ UNCHANGED <<fn, input, rate, peak, loudness, block_size, audio, meter,
                 measured, ret, err, steps, call, first, writeVars, freqVars>>

\* the samples of the output file: the chunks written, in the order written
RECURSIVE FileContent(_, _)
FileContent(data, chunks) ==
  IF chunks = <<>> THEN <<>>
  ELSE FileContent(data, SubSeq(chunks, 1, Len(chunks) - 1)) \o
       SubSeq(data, chunks[Len(chunks)].lo + 1, chunks[Len(chunks)].hi)

\* what a finished call hands back: the buffer returned, or the output file
Output == IF fn = "loudness_norm" THEN ret[1] ELSE FileContent(audio, written)

\* the caller normalises the result again, with the same arguments
Again ==
  /\ pc = "done"
  /\ call = 1
  /\ call' = 2
  /\ first' = <<Output>>
  /\ audio' = IF fn = "loudness_norm" THEN Output ELSE <<>>
  /\ pc' = IF fn = "loudness_norm" THEN "ln_peak" ELSE "f_read"
  /\ meter' = <<>>
  /\ measured' = <<>>
  /\ ret' = <<>>
  /\ steps' = <<>>
  /\ out_open' = FALSE
  /\ written' = <<>>
  /\ i' = 0
  /\ stop' = 0
  /\ UNCHANGED <<fn, input, rate, peak, loudness, block_size, err, freqVars>>

Next ==
  \/ LN_Peak
  \/ LN_Meter
  \/ LN_Measure
  \/ LN_Return
  \/ F_Read
  \/ F_Meter
  \/ F_Measure
  \/ F_Loudness
  \/ F_Peak
  \/ F_Open
  \/ F_Write
  \/ F_Close
  \/ F_Except
  \/ Again

Spec == Init /\ [][Next]_vars

\* ------------------------------------------------------------ frequency
\* f0 values of a pitch track, in Hz; 0 is an unvoiced frame
Pitches == {0, 440, 880}

RECURSIVE PitchTracks(_)
PitchTracks(n) ==
  IF n = 0 THEN {<<>>}
  ELSE PitchTracks(n - 1) \cup
       {Append(t, f) : t \in {u \in PitchTracks(n - 1) : Len(u) = n - 1},
                       f \in Pitches}

\* a .wav file: its pitch track, or a file pm.Sound cannot load
Files ==
  {[ok |-> FALSE, f0 |-> <<>>]} \cup
  {[ok |-> TRUE, f0 |-> t] : t \in PitchTracks(MaxPitch)}

RECURSIVE FileLists(_)
FileLists(n) ==
  IF n = 0 THEN {<<>>}
  ELSE FileLists(n - 1) \cup
       {Append(l, f) : l \in {m \in FileLists(n - 1) : Len(m) = n - 1},
                       f \in Files}

\* librosa.hz_to_midi: 69 + 12 * log2(hz / 440), for the pitches of the model
hz_to_midi(hz) == CASE hz = 440 -> 69 [] hz = 880 -> 81

\* Counter()
EmptyCounter == [m \in {} |-> 0]

Count(c, m) == IF m \in DOMAIN c THEN c[m] ELSE 0

\* counter[m] += 1
Increment(c, m) == [k \in DOMAIN c \cup {m} |-> Count(c, k) + (IF k = m THEN 1 ELSE 0)]

\* counter += other: the counts add up, key by key
CounterAdd(c, other) == [k \in DOMAIN c \cup DOMAIN other |-> Count(c, k) + Count(other, k)]

\* count_midi_from_file: the loop over f0, for the first t values
RECURSIVE CountNotes(_, _)
CountNotes(f0, t) ==
  IF t = 0 THEN EmptyCounter
  ELSE IF f0[t] = 0 THEN CountNotes(f0, t - 1)
       ELSE Increment(CountNotes(f0, t - 1), hz_to_midi(f0[t]))

count_midi_from_file(file) == CountNotes(file.f0, Len(file.f0))

InitFrequency ==
  /\ NormIdle
  /\ WriteIdle
  /\ files \in FileLists(MaxFiles)
  /\ tasks = <<>>
  /\ yielded = {}
  /\ counter = EmptyCounter
  /\ fpc = "submit"

\* tasks.append(executor.submit(count_midi_from_file, file))
FQ_Submit ==
  /\ fpc = "submit"
  /\ Len(tasks) < Len(files)
  /\ tasks' = Append(tasks, [st |-> "pending", result |-> EmptyCounter])
  /\ UNCHANGED <<files, yielded, counter, fpc, normVars, writeVars>>

\* every file has been submitted: on to the loop over as_completed(tasks)
FQ_Submitted ==
  /\ fpc = "submit"
  /\ Len(tasks) = Len(files)
  /\ fpc' = "collect"
  /\ UNCHANGED <<files, tasks, yielded, counter, normVars, writeVars>>

\* a worker process runs a submitted task: the future holds the Counter, or
\* the exception count_midi_from_file raised
FQ_Run(k) ==
  /\ fpc \in {"submit", "collect", "shutdown"}
  /\ tasks[k].st = "pending"
  /\ tasks' = [tasks EXCEPT ![k] =
                 IF files[k].ok
                   THEN [st |-> "done", result |-> count_midi_from_file(files[k])]
                   ELSE [st |-> "raised", result |-> EmptyCounter]]
  /\ UNCHANGED <<files, yielded, counter, fpc, normVars, writeVars>>

\* counter += task.result(), for a future as_completed gives out:
\* result() raises the task's exception again, which leaves the loop and the
\* with block (ProcessPoolExecutor.__exit__ waits for the workers)
FQ_Collect(k) ==
  /\ fpc = "collect"
  /\ k \notin yielded
  /\ tasks[k].st \in {"done", "raised"}
  /\ yielded' = yielded \cup {k}
  /\ IF tasks[k].st = "done"
       THEN /\ counter' = CounterAdd(counter, tasks[k].result)
            /\ UNCHANGED fpc
       ELSE /\ fpc' = "shutdown"
            /\ UNCHANGED counter
  /\ UNCHANGED <<files, tasks, normVars, writeVars>>

\* as_completed is exhausted: the with block ends, the command goes on
FQ_Collected ==
  /\ fpc = "collect"
  /\ yielded = 1..Len(tasks)
  /\ fpc' = "done"
  /\ UNCHANGED <<files, tasks, yielded, counter, normVars, writeVars>>

\* the workers have finished: the exception leaves frequency()
FQ_Raise ==
  /\ fpc = "shutdown"
  /\ \A k \in 1..Len(tasks) : tasks[k].st # "pending"
  /\ fpc' = "raised"
  /\ UNCHANGED <<files, tasks, yielded, counter, normVars, writeVars>>

NextFrequency ==
  \/ FQ_Submit
  \/ FQ_Submitted
  \/ \E k \in 1..Len(tasks) : FQ_Run(k)
  \/ \E k \in 1..Len(tasks) : FQ_Collect(k)
  \/ FQ_Collected
  \/ FQ_Raise

SpecFrequency == InitFrequency /\ [][NextFrequency]_vars

\* ------------------------------------------------------- the chunk loop
\* The chunk loop alone, entered after F_Open, for buffers of many chunks:
\* the samples and the measurement are left out, the length of the buffer
\* and the frames of each chunk are followed.  The meter has refused an
\* empty buffer before the loop is reached, so the length is at least 1.
MaxChunks == 4
Slack == 3

Lengths ==
  {n \in {c * chunk_size + e : c \in 0..MaxChunks, e \in (-Slack)..Slack} : n > 0}

InitWrite ==
  /\ fn = "loudness_norm_file"
  /\ pc = "f_loop"
  /\ input = <<>>
  /\ rate = 10
  /\ peak = Fin(2, 1)
  /\ loudness = Fin(2, 1)
  /\ block_size = DefaultBlockSize
  /\ audio = <<>>
  /\ meter = <<DefaultBlockSize>>
  /\ measured = <<>>
  /\ ret = <<>>
  /\ err = ""
  /\ steps = <<"measure", "loudness", "peak", "open">>
  /\ call = 1
  /\ first = <<>>
  /\ out_open = TRUE
  /\ written = <<>>
  /\ i = 0
  /\ stop \in Lengths
  /\ FreqIdle

NextWrite ==
  \/ F_Write
  \/ F_Close

SpecWrite == InitWrite /\ [][NextWrite]_vars

\* ================================================================ claims
\* the call has returned normally
Returned == pc = "done"

\* every sample of data is exactly zero
Silent(data) == \A t \in 1..Len(data) : IsZero(data[t])

\* the sample peak of a buffer, as a power
PeakOf(data) == MaxAbs(data, Len(data))

\* the buffer the meter of this call measured
MeasuredData == IF fn = "loudness_norm" THEN audio ELSE InputFile

\* b is within 0.1 dB of a (powers: a factor of 44/43 is 0.0998 dB)
Within01dB(a, b) ==
  /\ IsFin(a)
  /\ IsFin(b)
  /\ \/ IsZero(a) /\ IsZero(b)
     \/ /\ ~IsZero(a)
        /\ ~IsZero(b)
        /\ FLeq(FMul(a, Fin(43, 44)), b)
        /\ FLeq(b, FMul(a, Fin(44, 43)))

\* C1: after normalization the maximum absolute sample of the output never
\* exceeds the linear peak target (here: by more than a tenth in power),
\* for loudness_norm and for loudness_norm_file.
C1_PeakNeverExceedsTarget ==
  Returned => ~FLt(FMul(peak, Fin(11, 10)), PeakOf(Output))

\* C2: an all-zero buffer comes back all-zero, with a loudness measurement
\* of minus infinity and no NaN or infinite sample in the output.
C2_SilenceStaysSilent ==
  (Returned /\ call = 1 /\ Silent(input)) =>
    /\ Silent(Output)
    /\ measured = <<Zero>>

\* the gain the claim C3 describes: min(g_loud, g_peak), from the loudness
\* and the peak of the input
ClaimedGain ==
  LET g_loud == FDiv(loudness, integrated_loudness(input, rate, meter[1]))
      g_peak == FDiv(peak, PeakOf(input))
  IN  IF FLt(g_loud, g_peak) THEN g_loud ELSE g_peak

\* C3: for a non-silent input the one gain applied is min(g_loud, g_peak):
\* the output is the input times that gain, in both entry points.
C3_GainIsMinOfLoudnessAndPeak ==
  (Returned /\ call = 1 /\ ~Silent(input)) => Output = Scale(input, ClaimedGain)

\* C4: normalizing the result of a normalization of a non-silent buffer
\* again, with the same targets, leaves its measured integrated loudness and
\* its sample peak unchanged, each within 0.1 dB.
C4_Idempotent ==
  (Returned /\ call = 2 /\ ~Silent(input)) =>
    /\ Within01dB(PeakOf(first[1]), PeakOf(Output))
    /\ Within01dB(integrated_loudness(first[1], rate, meter[1]),
                  integrated_loudness(Output, rate, meter[1]))

\* C5: with valid parameters (block_size > 0, rate > 0) normalization fails
\* for no buffer, a buffer shorter than one block included: nothing is
\* raised but a failure of the decoder.
C5_TotalOverBuffers ==
  (block_size > 0 /\ rate > 0) => err \in {"", "sf.read failed"}

\* C6: with a block duration <= 0 the call fails before any computation on
\* the buffer and with no partial output: no step is done, nothing is
\* returned, no output file is opened or written.
C6_InvalidBlockFailsFast ==
  (block_size <= 0) =>
    /\ steps = <<>>
    /\ ~Returned
    /\ ret = <<>>
    /\ ~out_open
    /\ written = <<>>

\* the block powers of the buffer measured, with the meter's block size
MeasuredBlocks == BlockPowers(MeasuredData, rate, meter[1])

\* z with every block below -70 LUFS made silent
WithoutBelowGate(z) == [j \in DOMAIN z |-> IF FLt(z[j], Gamma_a) THEN Zero ELSE z[j]]

\* C7: the integrated loudness is the gated value: it is minus infinity
\* (never NaN) when no block is left, and otherwise above -70 LUFS; a block
\* below -70 LUFS has no influence on it (the result is that of the same
\* blocks with the ones below the gate silenced), so when one block is above
\* the gate and every other block is below it, the result is the power of
\* that one block.
C7_GatedLoudness ==
  (measured # <<>>) =>
    LET z == MeasuredBlocks
        Above == {j \in DOMAIN z : FLt(Gamma_a, z[j])}
        Below == {j \in DOMAIN z : FLt(z[j], Gamma_a)}
    IN  /\ IsFin(measured[1])
        /\ (Above = {}) => measured[1] = Zero
        /\ IsZero(measured[1]) \/ FLt(Gamma_a, measured[1])
        /\ measured[1] = GatedLoudness(WithoutBelowGate(z), Cardinality(DOMAIN z))
        /\ \A j \in Above : (Below = DOMAIN z \ {j}) => measured[1] = z[j]

\* C7's case: a measurement of two blocks, one below the gate and not
\* silent, one above it, whose result is the power of the block above
C7_Witness ==
  /\ measured # <<>>
  /\ LET z == MeasuredBlocks
     IN  /\ DOMAIN z = 0..1
         /\ \E j, k \in DOMAIN z :
              /\ FLt(Zero, z[j])
              /\ FLt(z[j], Gamma_a)
              /\ FLt(Gamma_a, z[k])
              /\ measured[1] = z[k]

\* The total of the counters of the files of fs[1..n] that can be counted.
RECURSIVE TotalOf(_, _)
TotalOf(fs, n) ==
  IF n = 0 THEN EmptyCounter
  ELSE IF fs[n].ok THEN CounterAdd(TotalOf(fs, n - 1), count_midi_from_file(fs[n]))
       ELSE TotalOf(fs, n - 1)

\* C8: a failing task does not abort the rest of the batch: when
\* frequency() is over, the counters of all the files that can be counted
\* have been added to the total.
C8_FailureDoesNotAbortBatch ==
  (fpc \in {"done", "raised"}) => counter = TotalOf(files, Len(files))

\* C9: the chunks are written in increasing frame order, each after the
\* other with no gap and no overlap, none empty, each of at most chunk_size
\* frames and all but the last of exactly chunk_size; once the loop has
\* ended they make up the whole buffer, and nothing is written for an empty
\* buffer.
C9_ChunkedWrite ==
  /\ \A c \in 1..Len(written) :
       /\ written[c].lo = (IF c = 1 THEN 0 ELSE written[c - 1].hi)
       /\ written[c].lo < written[c].hi
       /\ written[c].hi - written[c].lo <= chunk_size
       /\ written[c].hi <= stop
       /\ (c < Len(written)) => (written[c].hi - written[c].lo = chunk_size)
  /\ (stop = 0) => written = <<>>
  /\ (Returned /\ fn = "loudness_norm_file" /\ stop > 0) =>
       /\ written # <<>>
       /\ written[Len(written)].hi = stop

\* C9's case: a buffer of exactly two chunks, written and closed
C9_Witness ==
  /\ Returned
  /\ stop = 2 * chunk_size
  /\ Len(written) = 2
  /\ written[2] = [lo |-> chunk_size, hi |-> 2 * chunk_size]

\* C10: the block duration passed to the call is the one its loudness was
\* measured with, in both entry points.
C10_MeterUsesBlockSize ==
  (measured # <<>>) => meter[1] = block_size

====
